---- MODULE Spec2Model ----
(***************************************************************************)
(* Storm-event pipeline of processing.py: expand_value (the magnitude      *)
(* normaliser) and merge_intersect (merge -> expand -> spatial join ->     *)
(* group/sum -> idxmax -> to_csv).                                         *)
(*                                                                         *)
(* Strings are sequences of one-character strings.  Numbers are IEEE-754   *)
(* binary64 values, as Python's float and the float64 column of pandas:    *)
(* float(..) is the double nearest the literal, * and + round to nearest,  *)
(* ties to even, beyond the largest double lies inf, and nan is no number. *)
(* Integers wider than 32 bits are sequences of limbs.                     *)
(***************************************************************************)
EXTENDS Integers, Sequences, FiniteSets

VARIABLES value, ret,
          pts, details, states,
          pc, all_data, intersected, aggregated_df, most_common_cat, csv

vars == <<value, ret, pts, details, states,
          pc, all_data, intersected, aggregated_df, most_common_cat, csv>>

evVars == <<value, ret>>
pipeVars == <<pts, details, states,
              pc, all_data, intersected, aggregated_df, most_common_cat, csv>>

(***************************************************************************)
(* Bounds                                                                  *)
(***************************************************************************)
\* longest magnitude string handed to expand_value on its own
MaxLen == 4
\* most rows of locations_all.csv
MaxPts == 2
\* most rows of details_all.csv
MaxDetails == 2
\* most rows of details_all.csv when the magnitudes have fractional numerals
MaxFractionalDetails == 3
\* most rows of details_all.csv when the magnitudes include inf and nan
MaxNonFiniteDetails == 2

(***************************************************************************)
(* Characters and strings                                                  *)
(***************************************************************************)
\* A character outside ASCII, and a control character with no escape (the
\* vertical tab "U+000B", the file separator "U+001C"), is written by its
\* code point, "U+0663" for ARABIC-INDIC DIGIT THREE: one character of a
\* string.
\* The characters float() drops around the text: the blanks of C for ASCII,
\* str.isspace() beyond
Whitespace ==
    {" ", "\t", "\n", "\r", "\f", "U+000B",
     "U+0085", "U+00A0", "U+1680", "U+2000", "U+2001", "U+2002",
     "U+2003", "U+2004", "U+2005", "U+2006", "U+2007", "U+2008",
     "U+2009", "U+200A", "U+2028", "U+2029", "U+202F", "U+205F",
     "U+3000"}

\* DecimalDigits[d + 1]: the characters float() reads as the digit d (those
\* of Unicode category Nd)
DecimalDigits ==
    <<
    {"0", "U+0660", "U+06F0", "U+07C0", "U+0966", "U+09E6", "U+0A66",
     "U+0AE6", "U+0B66", "U+0BE6", "U+0C66", "U+0CE6", "U+0D66",
     "U+0DE6", "U+0E50", "U+0ED0", "U+0F20", "U+1040", "U+1090",
     "U+17E0", "U+1810", "U+1946", "U+19D0", "U+1A80", "U+1A90",
     "U+1B50", "U+1BB0", "U+1C40", "U+1C50", "U+A620", "U+A8D0",
     "U+A900", "U+A9D0", "U+A9F0", "U+AA50", "U+ABF0", "U+FF10",
     "U+104A0", "U+10D30", "U+11066", "U+110F0", "U+11136", "U+111D0",
     "U+112F0", "U+11450", "U+114D0", "U+11650", "U+116C0", "U+11730",
     "U+118E0", "U+11950", "U+11C50", "U+11D50", "U+11DA0", "U+16A60",
     "U+16AC0", "U+16B50", "U+1D7CE", "U+1D7D8", "U+1D7E2", "U+1D7EC",
     "U+1D7F6", "U+1E140", "U+1E2F0", "U+1E950", "U+1FBF0"},
    {"1", "U+0661", "U+06F1", "U+07C1", "U+0967", "U+09E7", "U+0A67",
     "U+0AE7", "U+0B67", "U+0BE7", "U+0C67", "U+0CE7", "U+0D67",
     "U+0DE7", "U+0E51", "U+0ED1", "U+0F21", "U+1041", "U+1091",
     "U+17E1", "U+1811", "U+1947", "U+19D1", "U+1A81", "U+1A91",
     "U+1B51", "U+1BB1", "U+1C41", "U+1C51", "U+A621", "U+A8D1",
     "U+A901", "U+A9D1", "U+A9F1", "U+AA51", "U+ABF1", "U+FF11",
     "U+104A1", "U+10D31", "U+11067", "U+110F1", "U+11137", "U+111D1",
     "U+112F1", "U+11451", "U+114D1", "U+11651", "U+116C1", "U+11731",
     "U+118E1", "U+11951", "U+11C51", "U+11D51", "U+11DA1", "U+16A61",
     "U+16AC1", "U+16B51", "U+1D7CF", "U+1D7D9", "U+1D7E3", "U+1D7ED",
     "U+1D7F7", "U+1E141", "U+1E2F1", "U+1E951", "U+1FBF1"},
    {"2", "U+0662", "U+06F2", "U+07C2", "U+0968", "U+09E8", "U+0A68",
     "U+0AE8", "U+0B68", "U+0BE8", "U+0C68", "U+0CE8", "U+0D68",
     "U+0DE8", "U+0E52", "U+0ED2", "U+0F22", "U+1042", "U+1092",
     "U+17E2", "U+1812", "U+1948", "U+19D2", "U+1A82", "U+1A92",
     "U+1B52", "U+1BB2", "U+1C42", "U+1C52", "U+A622", "U+A8D2",
     "U+A902", "U+A9D2", "U+A9F2", "U+AA52", "U+ABF2", "U+FF12",
     "U+104A2", "U+10D32", "U+11068", "U+110F2", "U+11138", "U+111D2",
     "U+112F2", "U+11452", "U+114D2", "U+11652", "U+116C2", "U+11732",
     "U+118E2", "U+11952", "U+11C52", "U+11D52", "U+11DA2", "U+16A62",
     "U+16AC2", "U+16B52", "U+1D7D0", "U+1D7DA", "U+1D7E4", "U+1D7EE",
     "U+1D7F8", "U+1E142", "U+1E2F2", "U+1E952", "U+1FBF2"},
    {"3", "U+0663", "U+06F3", "U+07C3", "U+0969", "U+09E9", "U+0A69",
     "U+0AE9", "U+0B69", "U+0BE9", "U+0C69", "U+0CE9", "U+0D69",
     "U+0DE9", "U+0E53", "U+0ED3", "U+0F23", "U+1043", "U+1093",
     "U+17E3", "U+1813", "U+1949", "U+19D3", "U+1A83", "U+1A93",
     "U+1B53", "U+1BB3", "U+1C43", "U+1C53", "U+A623", "U+A8D3",
     "U+A903", "U+A9D3", "U+A9F3", "U+AA53", "U+ABF3", "U+FF13",
     "U+104A3", "U+10D33", "U+11069", "U+110F3", "U+11139", "U+111D3",
     "U+112F3", "U+11453", "U+114D3", "U+11653", "U+116C3", "U+11733",
     "U+118E3", "U+11953", "U+11C53", "U+11D53", "U+11DA3", "U+16A63",
     "U+16AC3", "U+16B53", "U+1D7D1", "U+1D7DB", "U+1D7E5", "U+1D7EF",
     "U+1D7F9", "U+1E143", "U+1E2F3", "U+1E953", "U+1FBF3"},
    {"4", "U+0664", "U+06F4", "U+07C4", "U+096A", "U+09EA", "U+0A6A",
     "U+0AEA", "U+0B6A", "U+0BEA", "U+0C6A", "U+0CEA", "U+0D6A",
     "U+0DEA", "U+0E54", "U+0ED4", "U+0F24", "U+1044", "U+1094",
     "U+17E4", "U+1814", "U+194A", "U+19D4", "U+1A84", "U+1A94",
     "U+1B54", "U+1BB4", "U+1C44", "U+1C54", "U+A624", "U+A8D4",
     "U+A904", "U+A9D4", "U+A9F4", "U+AA54", "U+ABF4", "U+FF14",
     "U+104A4", "U+10D34", "U+1106A", "U+110F4", "U+1113A", "U+111D4",
     "U+112F4", "U+11454", "U+114D4", "U+11654", "U+116C4", "U+11734",
     "U+118E4", "U+11954", "U+11C54", "U+11D54", "U+11DA4", "U+16A64",
     "U+16AC4", "U+16B54", "U+1D7D2", "U+1D7DC", "U+1D7E6", "U+1D7F0",
     "U+1D7FA", "U+1E144", "U+1E2F4", "U+1E954", "U+1FBF4"},
    {"5", "U+0665", "U+06F5", "U+07C5", "U+096B", "U+09EB", "U+0A6B",
     "U+0AEB", "U+0B6B", "U+0BEB", "U+0C6B", "U+0CEB", "U+0D6B",
     "U+0DEB", "U+0E55", "U+0ED5", "U+0F25", "U+1045", "U+1095",
     "U+17E5", "U+1815", "U+194B", "U+19D5", "U+1A85", "U+1A95",
     "U+1B55", "U+1BB5", "U+1C45", "U+1C55", "U+A625", "U+A8D5",
     "U+A905", "U+A9D5", "U+A9F5", "U+AA55", "U+ABF5", "U+FF15",
     "U+104A5", "U+10D35", "U+1106B", "U+110F5", "U+1113B", "U+111D5",
     "U+112F5", "U+11455", "U+114D5", "U+11655", "U+116C5", "U+11735",
     "U+118E5", "U+11955", "U+11C55", "U+11D55", "U+11DA5", "U+16A65",
     "U+16AC5", "U+16B55", "U+1D7D3", "U+1D7DD", "U+1D7E7", "U+1D7F1",
     "U+1D7FB", "U+1E145", "U+1E2F5", "U+1E955", "U+1FBF5"},
    {"6", "U+0666", "U+06F6", "U+07C6", "U+096C", "U+09EC", "U+0A6C",
     "U+0AEC", "U+0B6C", "U+0BEC", "U+0C6C", "U+0CEC", "U+0D6C",
     "U+0DEC", "U+0E56", "U+0ED6", "U+0F26", "U+1046", "U+1096",
     "U+17E6", "U+1816", "U+194C", "U+19D6", "U+1A86", "U+1A96",
     "U+1B56", "U+1BB6", "U+1C46", "U+1C56", "U+A626", "U+A8D6",
     "U+A906", "U+A9D6", "U+A9F6", "U+AA56", "U+ABF6", "U+FF16",
     "U+104A6", "U+10D36", "U+1106C", "U+110F6", "U+1113C", "U+111D6",
     "U+112F6", "U+11456", "U+114D6", "U+11656", "U+116C6", "U+11736",
     "U+118E6", "U+11956", "U+11C56", "U+11D56", "U+11DA6", "U+16A66",
     "U+16AC6", "U+16B56", "U+1D7D4", "U+1D7DE", "U+1D7E8", "U+1D7F2",
     "U+1D7FC", "U+1E146", "U+1E2F6", "U+1E956", "U+1FBF6"},
    {"7", "U+0667", "U+06F7", "U+07C7", "U+096D", "U+09ED", "U+0A6D",
     "U+0AED", "U+0B6D", "U+0BED", "U+0C6D", "U+0CED", "U+0D6D",
     "U+0DED", "U+0E57", "U+0ED7", "U+0F27", "U+1047", "U+1097",
     "U+17E7", "U+1817", "U+194D", "U+19D7", "U+1A87", "U+1A97",
     "U+1B57", "U+1BB7", "U+1C47", "U+1C57", "U+A627", "U+A8D7",
     "U+A907", "U+A9D7", "U+A9F7", "U+AA57", "U+ABF7", "U+FF17",
     "U+104A7", "U+10D37", "U+1106D", "U+110F7", "U+1113D", "U+111D7",
     "U+112F7", "U+11457", "U+114D7", "U+11657", "U+116C7", "U+11737",
     "U+118E7", "U+11957", "U+11C57", "U+11D57", "U+11DA7", "U+16A67",
     "U+16AC7", "U+16B57", "U+1D7D5", "U+1D7DF", "U+1D7E9", "U+1D7F3",
     "U+1D7FD", "U+1E147", "U+1E2F7", "U+1E957", "U+1FBF7"},
    {"8", "U+0668", "U+06F8", "U+07C8", "U+096E", "U+09EE", "U+0A6E",
     "U+0AEE", "U+0B6E", "U+0BEE", "U+0C6E", "U+0CEE", "U+0D6E",
     "U+0DEE", "U+0E58", "U+0ED8", "U+0F28", "U+1048", "U+1098",
     "U+17E8", "U+1818", "U+194E", "U+19D8", "U+1A88", "U+1A98",
     "U+1B58", "U+1BB8", "U+1C48", "U+1C58", "U+A628", "U+A8D8",
     "U+A908", "U+A9D8", "U+A9F8", "U+AA58", "U+ABF8", "U+FF18",
     "U+104A8", "U+10D38", "U+1106E", "U+110F8", "U+1113E", "U+111D8",
     "U+112F8", "U+11458", "U+114D8", "U+11658", "U+116C8", "U+11738",
     "U+118E8", "U+11958", "U+11C58", "U+11D58", "U+11DA8", "U+16A68",
     "U+16AC8", "U+16B58", "U+1D7D6", "U+1D7E0", "U+1D7EA", "U+1D7F4",
     "U+1D7FE", "U+1E148", "U+1E2F8", "U+1E958", "U+1FBF8"},
    {"9", "U+0669", "U+06F9", "U+07C9", "U+096F", "U+09EF", "U+0A6F",
     "U+0AEF", "U+0B6F", "U+0BEF", "U+0C6F", "U+0CEF", "U+0D6F",
     "U+0DEF", "U+0E59", "U+0ED9", "U+0F29", "U+1049", "U+1099",
     "U+17E9", "U+1819", "U+194F", "U+19D9", "U+1A89", "U+1A99",
     "U+1B59", "U+1BB9", "U+1C49", "U+1C59", "U+A629", "U+A8D9",
     "U+A909", "U+A9D9", "U+A9F9", "U+AA59", "U+ABF9", "U+FF19",
     "U+104A9", "U+10D39", "U+1106F", "U+110F9", "U+1113F", "U+111D9",
     "U+112F9", "U+11459", "U+114D9", "U+11659", "U+116C9", "U+11739",
     "U+118E9", "U+11959", "U+11C59", "U+11D59", "U+11DA9", "U+16A69",
     "U+16AC9", "U+16B59", "U+1D7D7", "U+1D7E1", "U+1D7EB", "U+1D7F5",
     "U+1D7FF", "U+1E149", "U+1E2F9", "U+1E959", "U+1FBF9"}
    >>

Digits == UNION {DecimalDigits[i] : i \in 1..10}
Suffixes == {"K", "M", "B"}
\* the characters magnitude strings are enumerated over
Alphabet == {"0", "1", "2", "5", ".", "-", "+", "e", "_", " "} \cup Suffixes

\* the float NaN pandas puts in a blank cell (a one-token sequence, so that
\* it is no string over any alphabet)
NaN == <<"NaN">>

StringsUpTo(n) == UNION {[1..k -> Alphabet] : k \in 0..n}

\* str(value): a str is itself, the float NaN prints as 'nan'
PyStr(v) == IF v = NaN THEN <<"n", "a", "n">> ELSE v

\* value[:-1]
DropLast(s) == SubSeq(s, 1, Len(s) - 1)

\* value.endswith(c)
EndsWith(s, c) == Len(s) > 0 /\ s[Len(s)] = c

(***************************************************************************)
(* Natural numbers of any size: little-endian sequences of limbs in        *)
(* 0..Base-1, the most significant limb non-zero (<<>> is 0).  What runs   *)
(* along the limbs with a carry takes them half by half, so that a number  *)
(* of a thousand bits costs ten nested steps, not seventy.                 *)
(***************************************************************************)
Base == 32 * 1024
LimbBits == 15

RECURSIVE Pow2(_)
Pow2(n) == IF n = 0 THEN 1 ELSE 2 * Pow2(n - 1)

\* the limb at position i, 0 past the end
Limb(a, i) == IF i <= Len(a) THEN a[i] ELSE 0

\* the positions of a where P holds: the lowest and the highest
Lowest(S) == CHOOSE i \in S : \A j \in S : i <= j
Highest(S) == 0 - Lowest({0 - i : i \in S})

BigTrim(a) ==
    LET nz == {i \in 1..Len(a) : a[i] # 0}
    IN IF nz = {} THEN <<>> ELSE SubSeq(a, 1, Highest(nz))

RECURSIVE BigOfInt(_)
BigOfInt(n) == IF n = 0 THEN <<>> ELSE <<n % Base>> \o BigOfInt(n \div Base)

\* limbs lo..hi of a * c + carry, and the carry out of them
RECURSIVE MulCarry(_, _, _, _, _)
MulCarry(a, c, lo, hi, carry) ==
    IF lo > hi THEN [limbs |-> <<>>, carry |-> carry]
    ELSE IF lo = hi
    THEN LET t == a[lo] * c + carry
         IN [limbs |-> <<t % Base>>, carry |-> t \div Base]
    ELSE LET mid == (lo + hi) \div 2
             low == MulCarry(a, c, lo, mid, carry)
             high == MulCarry(a, c, mid + 1, hi, low.carry)
         IN [limbs |-> low.limbs \o high.limbs, carry |-> high.carry]

\* a * c for 0 < c < Base
BigMulSmall(a, c) ==
    LET p == MulCarry(a, c, 1, Len(a), 0) IN p.limbs \o BigOfInt(p.carry)

\* limbs lo..hi of a + b + carry, and the carry out of them
RECURSIVE AddCarry(_, _, _, _, _)
AddCarry(a, b, lo, hi, carry) ==
    IF lo > hi THEN [limbs |-> <<>>, carry |-> carry]
    ELSE IF lo = hi
    THEN LET t == Limb(a, lo) + Limb(b, lo) + carry
         IN [limbs |-> <<t % Base>>, carry |-> t \div Base]
    ELSE LET mid == (lo + hi) \div 2
             low == AddCarry(a, b, lo, mid, carry)
             high == AddCarry(a, b, mid + 1, hi, low.carry)
         IN [limbs |-> low.limbs \o high.limbs, carry |-> high.carry]

BigAdd(a, b) ==
    LET s == AddCarry(a, b, 1, IF Len(a) > Len(b) THEN Len(a) ELSE Len(b), 0)
    IN s.limbs \o BigOfInt(s.carry)

\* limbs lo..hi of a - b - borrow, and the borrow out of them
RECURSIVE SubBorrow(_, _, _, _, _)
SubBorrow(a, b, lo, hi, borrow) ==
    IF lo > hi THEN [limbs |-> <<>>, borrow |-> borrow]
    ELSE IF lo = hi
    THEN LET t == a[lo] - Limb(b, lo) - borrow
         IN [limbs |-> <<IF t < 0 THEN t + Base ELSE t>>,
             borrow |-> IF t < 0 THEN 1 ELSE 0]
    ELSE LET mid == (lo + hi) \div 2
             low == SubBorrow(a, b, lo, mid, borrow)
             high == SubBorrow(a, b, mid + 1, hi, low.borrow)
         IN [limbs |-> low.limbs \o high.limbs, borrow |-> high.borrow]

\* a - b for a >= b
BigSub(a, b) == BigTrim(SubBorrow(a, b, 1, Len(a), 0).limbs)

\* -1, 0, 1 as a < b, a = b, a > b
BigCmp(a, b) ==
    LET differ == {i \in 1..Len(a) : a[i] # Limb(b, i)}
    IN IF Len(a) # Len(b) THEN (IF Len(a) < Len(b) THEN -1 ELSE 1)
       ELSE IF differ = {} THEN 0
       ELSE IF a[Highest(differ)] < b[Highest(differ)] THEN -1 ELSE 1

\* the quotient of a by c from its lo-th limb to its hi-th, counted from the
\* top and written from the top down, r being the remainder of the limbs
\* before; and the remainder after them
RECURSIVE DivLimbs(_, _, _, _, _)
DivLimbs(a, c, lo, hi, r) ==
    IF lo > hi THEN [q |-> <<>>, r |-> r]
    ELSE IF lo = hi
    THEN LET t == r * Base + a[Len(a) + 1 - lo]
         IN [q |-> <<t \div c>>, r |-> t % c]
    ELSE LET mid == (lo + hi) \div 2
             upper == DivLimbs(a, c, lo, mid, r)
             lower == DivLimbs(a, c, mid + 1, hi, upper.r)
         IN [q |-> upper.q \o lower.q, r |-> lower.r]

\* quotient (its top limb may be 0) and remainder of a by c, 0 < c < Base
DivRem(a, c) ==
    LET d == DivLimbs(a, c, 1, Len(a), 0)
    IN [q |-> [i \in 1..Len(a) |-> d.q[Len(a) + 1 - i]], r |-> d.r]

BigDivSmall(a, c) == BigTrim(DivRem(a, c).q)

\* a * 2^s
BigShl(a, s) ==
    IF a = <<>> THEN <<>>
    ELSE [i \in 1..(s \div LimbBits) |-> 0] \o BigMulSmall(a, Pow2(s % LimbBits))

\* a \div 2^s
BigShr(a, s) ==
    IF s \div LimbBits >= Len(a) THEN <<>>
    ELSE BigDivSmall(SubSeq(a, s \div LimbBits + 1, Len(a)), Pow2(s % LimbBits))

RECURSIVE IntBitLen(_)
IntBitLen(n) == IF n = 0 THEN 0 ELSE 1 + IntBitLen(n \div 2)

BigBitLen(a) ==
    IF a = <<>> THEN 0 ELSE LimbBits * (Len(a) - 1) + IntBitLen(a[Len(a)])

BigIsOdd(a) == a # <<>> /\ a[1] % 2 = 1

(***************************************************************************)
(* IEEE-754 binary64 values.  A finite value is sign * m * 2^e with m odd  *)
(* and below 2^53 (0 has m = <<>>, e = 0, and keeps its sign); the others  *)
(* are the two infinities and NaN.  The same records with m of any width   *)
(* stand for real numbers where a sum is wanted before it is rounded.      *)
(***************************************************************************)
Precision == 53
\* exponent of the last bit of the smallest subnormal, 2^-1074
MinExponent == 0 - 1074
\* doubles are below 2^1024
MaxExponent == 1024

RECURSIVE IntTrailingZeros(_)
IntTrailingZeros(n) == IF n % 2 = 1 THEN 0 ELSE 1 + IntTrailingZeros(n \div 2)

\* m * 2^e with m made odd
Canon(m, e) ==
    IF m = <<>> THEN [m |-> <<>>, e |-> 0]
    ELSE LET zeros == Lowest({i \in 1..Len(m) : m[i] # 0}) - 1
             z == IntTrailingZeros(m[zeros + 1])
         IN [m |-> BigShr(m, LimbBits * zeros + z), e |-> e + LimbBits * zeros + z]

Max2(a, b) == IF a > b THEN a ELSE b

Min2(a, b) == IF a < b THEN a ELSE b

\* m * 2^e (plus something below one unit of m when sticky) rounded to
\* Precision bits, or to fewer where the last bit would fall below
\* 2^MinExponent; ties to even
RoundNearestEven(m, e, sticky) ==
    LET s == Max2(BigBitLen(m) - Precision, MinExponent - e) IN
    IF m = <<>> \/ s <= 0 THEN Canon(m, e)
    ELSE LET q == BigShr(m, s)
             rest == BigSub(m, BigShl(q, s))
             c == BigCmp(rest, BigShl(<<1>>, s - 1))
             up == c > 0 \/ (c = 0 /\ (sticky \/ BigIsOdd(q)))
         IN Canon(IF up THEN BigAdd(q, <<1>>) ELSE q, e + s)

\* the real number sign * me.m * 2^me.e
Exact(sign, me) == [cls |-> "finite", sign |-> sign, m |-> me.m, e |-> me.e]

Infinity(sign) == [cls |-> "inf", sign |-> sign, m |-> <<>>, e |-> 0]

NotANumber == [cls |-> "nan", sign |-> 1, m |-> <<>>, e |-> 0]

\* the double of a rounded magnitude: infinite from 2^MaxExponent on
Float(sign, me) ==
    IF BigBitLen(me.m) + me.e > MaxExponent THEN Infinity(sign) ELSE Exact(sign, me)

FloatOfInt(n) ==
    Exact(IF n < 0 THEN -1 ELSE 1, Canon(BigOfInt(IF n < 0 THEN -n ELSE n), 0))

Zero == FloatOfInt(0)

IsNaN(x) == x.cls = "nan"

IsFinite(x) == x.cls = "finite"

IsZero(x) == IsFinite(x) /\ x.m = <<>>

FNeg(x) == IF IsNaN(x) THEN x ELSE [x EXCEPT !.sign = -x.sign]

\* x + y exactly, for finite x and y: a sign and a magnitude m * 2^e of any
\* width
SignedSum(x, y) ==
    IF IsZero(x) /\ IsZero(y)
    THEN (IF x.sign = -1 /\ y.sign = -1 THEN x ELSE Zero)
    ELSE IF IsZero(x) THEN y
    ELSE IF IsZero(y) THEN x
    ELSE LET e == Min2(x.e, y.e)
             a == BigShl(x.m, x.e - e)
             b == BigShl(y.m, y.e - e)
             c == BigCmp(a, b)
         IN IF x.sign = y.sign THEN Exact(x.sign, Canon(BigAdd(a, b), e))
            ELSE IF c = 0 THEN Zero
            ELSE IF c > 0 THEN Exact(x.sign, Canon(BigSub(a, b), e))
            ELSE Exact(y.sign, Canon(BigSub(b, a), e))

\* a finite value of any width rounded to the nearest double
Rounded(x) == Float(x.sign, RoundNearestEven(x.m, x.e, FALSE))

\* position of the leading bit of a finite x that is not 0
TopBit(x) == BigBitLen(x.m) + x.e

\* y is too small to move the double x: below a quarter of its last bit
Negligible(y, x) ==
    ~IsZero(x) /\ ~IsZero(y) /\ TopBit(y) + Precision + 3 <= TopBit(x)

\* x + y of two doubles
FAdd(x, y) ==
    IF IsNaN(x) \/ IsNaN(y) THEN NotANumber
    ELSE IF ~IsFinite(x)
         THEN (IF ~IsFinite(y) /\ x.sign # y.sign THEN NotANumber ELSE x)
    ELSE IF ~IsFinite(y) THEN y
    ELSE IF Negligible(y, x) THEN x
    ELSE IF Negligible(x, y) THEN y
    ELSE Rounded(SignedSum(x, y))

FSub(x, y) == FAdd(x, FNeg(y))

\* x < y (false when either is NaN; -0.0 and 0.0 are equal)
FLess(x, y) ==
    IF IsNaN(x) \/ IsNaN(y) THEN FALSE
    ELSE IF ~IsFinite(x) THEN x.sign = -1 /\ ~(~IsFinite(y) /\ y.sign = -1)
    ELSE IF ~IsFinite(y) THEN y.sign = 1
    ELSE IF IsZero(x) /\ IsZero(y) THEN FALSE
    ELSE IF IsZero(x) THEN y.sign = 1
    ELSE IF IsZero(y) THEN x.sign = -1
    ELSE IF x.sign # y.sign THEN x.sign = -1
    ELSE IF TopBit(x) # TopBit(y) THEN (x.sign = 1) = (TopBit(x) < TopBit(y))
    ELSE LET e == Min2(x.e, y.e)
             c == BigCmp(BigShl(x.m, x.e - e), BigShl(y.m, y.e - e))
         IN IF x.sign = 1 THEN c < 0 ELSE c > 0

\* x == y of two doubles (false when either is NaN; -0.0 == 0.0)
FEq(x, y) == ~IsNaN(x) /\ ~IsNaN(y) /\ ~FLess(x, y) /\ ~FLess(y, x)

\* 10^4, the largest power of ten below Base
TenThousand == 10 * 10 * 10 * 10

\* 10^n for n <= 4
SmallPow10(n) == CASE n = 0 -> 1 [] n = 1 -> 10 [] n = 2 -> 100 [] n = 3 -> 1000
                   [] n = 4 -> TenThousand

\* a \div 10^d, and whether anything was cut off (by halves of d, down to four
\* digits at a time)
RECURSIVE DivPow10(_, _)
DivPow10(a, d) ==
    IF a = <<>> THEN [q |-> a, cut |-> FALSE]
    ELSE IF d <= 4
    THEN LET one == DivRem(a, SmallPow10(d))
         IN [q |-> BigTrim(one.q), cut |-> one.r # 0]
    ELSE LET half == DivPow10(a, d \div 2)
             rest == DivPow10(half.q, d - d \div 2)
         IN [q |-> rest.q, cut |-> half.cut \/ rest.cut]

\* a * 10^n (by halves of n, down to four digits at a time)
RECURSIVE BigTimes10(_, _)
BigTimes10(a, n) ==
    IF a = <<>> THEN a
    ELSE IF n <= 4 THEN BigMulSmall(a, SmallPow10(n))
    ELSE BigTimes10(BigTimes10(a, n \div 2), n - n \div 2)

\* 5^n for n <= 6, the powers of five below Base
SmallPow5(n) == CASE n = 0 -> 1 [] n = 1 -> 5 [] n = 2 -> 25 [] n = 3 -> 125
                  [] n = 4 -> 625 [] n = 5 -> 3125 [] n = 6 -> 15625

\* a * 5^n (by halves of n, down to six factors at a time)
RECURSIVE BigTimes5(_, _)
BigTimes5(a, n) ==
    IF a = <<>> THEN a
    ELSE IF n <= 6 THEN BigMulSmall(a, SmallPow5(n))
    ELSE BigTimes5(BigTimes5(a, n \div 2), n - n \div 2)

\* the magnitude of the double nearest to n * 10^x (n a natural number of any
\* width, x an integer); 2^MaxExponent when n * 10^x is at least that, 0
\* when it is below half of 2^MinExponent.  A product is n * 5^x with 2^x
\* left in the exponent; a quotient is taken with two bits beyond the last
\* one a double can have
NearestDouble(n, x) ==
    IF n = <<>> THEN Canon(n, 0)
    ELSE IF x >= 0
    THEN (IF x >= MaxExponent \/ BigBitLen(n) - 1 + 3 * x >= MaxExponent
          THEN [m |-> <<1>>, e |-> MaxExponent]
          ELSE RoundNearestEven(BigTimes5(n, x), x, FALSE))
    ELSE IF BigBitLen(n) + x < MinExponent \/ BigBitLen(n) + 3 * x < MinExponent - 1
    THEN Canon(<<>>, 0)
    ELSE LET k == Min2(Precision + 3 - 4 * x, 2 - MinExponent)
             qc == DivPow10(BigShl(n, k), 0 - x)
         IN RoundNearestEven(qc.q, 0 - k, qc.cut)

\* x * 10^exp of a double x, for 10^exp itself a double (exp <= 22)
FTimesPow10(x, exp) ==
    IF ~IsFinite(x) THEN x
    ELSE Float(x.sign, RoundNearestEven(BigTimes10(x.m, exp), x.e, FALSE))

(***************************************************************************)
(* float(s): blanks around the text are dropped; then an optional sign and *)
(* either 'inf', 'infinity' or 'nan' in any case, or digits with at most   *)
(* one '.', single '_' between digits, and an optional exponent ('e' or    *)
(* 'E', an optional sign, digits).  Anything else is a ValueError.         *)
(***************************************************************************)
\* the digit a character of Digits stands for
DigitVal(c) == CHOOSE d \in 0..9 : c \in DecimalDigits[d + 1]

\* positions of the characters that are no blanks
Inked(s) == {i \in 1..Len(s) : s[i] \notin Whitespace}

Strip(s) ==
    IF Inked(s) = {} THEN <<>> ELSE SubSeq(s, Lowest(Inked(s)), Highest(Inked(s)))

Unsigned(s) == IF Len(s) > 0 /\ s[1] \in {"+", "-"} THEN Tail(s) ELSE s

SignOf(s) == IF Len(s) > 0 /\ s[1] = "-" THEN -1 ELSE 1

Lower(c) ==
    CASE c = "A" -> "a" [] c = "F" -> "f" [] c = "I" -> "i" [] c = "N" -> "n"
      [] c = "T" -> "t" [] c = "Y" -> "y" [] OTHER -> c

LowerSeq(s) == [i \in 1..Len(s) |-> Lower(s[i])]

IsInfWord(b) ==
    LowerSeq(b) \in {<<"i", "n", "f">>, <<"i", "n", "f", "i", "n", "i", "t", "y">>}

IsNaNWord(b) == LowerSeq(b) = <<"n", "a", "n">>

DotsOf(s) == {i \in 1..Len(s) : s[i] = "."}

ExpMarksOf(s) == {i \in 1..Len(s) : s[i] \in {"e", "E"}}

\* position of the exponent mark, past the end when there is none
ExpMark(s) ==
    IF ExpMarksOf(s) = {} THEN Len(s) + 1
    ELSE CHOOSE i \in ExpMarksOf(s) : \A j \in ExpMarksOf(s) : i <= j

\* the text before the exponent mark, and the text after it
MantissaOf(s) == SubSeq(s, 1, ExpMark(s) - 1)
ExponentOf(s) == SubSeq(s, ExpMark(s) + 1, Len(s))

\* digits, single underscores allowed between two of them
IsDigitPart(t) ==
    /\ t # <<>>
    /\ \A i \in 1..Len(t) : t[i] \in Digits \cup {"_"}
    /\ t[1] # "_" /\ t[Len(t)] # "_"
    /\ \A i \in 1..(Len(t) - 1) : ~(t[i] = "_" /\ t[i + 1] = "_")

\* position of the point, past the end when there is none
PointOf(t) == IF DotsOf(t) = {} THEN Len(t) + 1 ELSE CHOOSE i \in DotsOf(t) : TRUE

\* [digits] '.' digits, or digits ['.']
IsPointNumber(t) ==
    LET whole == SubSeq(t, 1, PointOf(t) - 1)
        frac == SubSeq(t, PointOf(t) + 1, Len(t))
    IN /\ Cardinality(DotsOf(t)) <= 1
       /\ whole = <<>> \/ IsDigitPart(whole)
       /\ frac = <<>> \/ IsDigitPart(frac)
       /\ whole # <<>> \/ frac # <<>>

\* digits after the decimal point
Decimals(s) ==
    LET point == PointOf(s) IN Cardinality({i \in 1..Len(s) : i > point /\ s[i] # "_"})

\* the digits of s after its leading zeros, underscores left out
SignificantDigits(s) ==
    LET d == SelectSeq(s, LAMBDA c : c # "_")
        lead == {i \in 1..Len(d) : DigitVal(d[i]) # 0}
    IN IF lead = {} THEN <<>> ELSE SubSeq(d, Lowest(lead), Len(d))

\* the digits float() counts in a number without its exponent: those from
\* the first that is not 0 on, or those after the leading zeros of the
\* fraction when there is none before the point
SignificantCount(t) ==
    LET point == PointOf(t)
        whole == SignificantDigits(SubSeq(t, 1, point - 1))
        frac == SubSeq(t, point + 1, Len(t))
    IN IF whole # <<>> THEN Len(whole) + Decimals(t) ELSE Len(SignificantDigits(frac))

\* float() refuses a number of more significant digits, or of more digits
\* after the point, than this (MAX_DIGITS of CPython's string-to-double
\* conversion)
MaxDigits == 1000000000

IsFloatNumber(b) ==
    /\ IsPointNumber(MantissaOf(b))
    /\ ExpMarksOf(b) # {} => IsDigitPart(Unsigned(ExponentOf(b)))
    /\ SignificantCount(MantissaOf(b)) <= MaxDigits
    /\ Decimals(MantissaOf(b)) <= MaxDigits

IsFloatLiteral(s) ==
    LET b == Unsigned(Strip(s)) IN IsInfWord(b) \/ IsNaNWord(b) \/ IsFloatNumber(b)

\* the digits of a numeral read as one natural number, point and
\* underscores left out (by halves, the upper digits shifted over the lower)
RECURSIVE DigitsValue(_)
DigitsValue(s) ==
    IF s = <<>> THEN <<>>
    ELSE IF Len(s) = 1
    THEN (IF s[1] \in {".", "_"} THEN <<>> ELSE BigOfInt(DigitVal(s[1])))
    ELSE LET mid == Len(s) \div 2
             lower == SubSeq(s, mid + 1, Len(s))
             digits == Cardinality({i \in 1..Len(lower) : lower[i] \notin {".", "_"}})
         IN BigAdd(BigTimes10(DigitsValue(SubSeq(s, 1, mid)), digits), DigitsValue(lower))

\* float() reads an exponent in full up to nine significant digits; a longer
\* one, or one beyond this value, it takes as this value (MAX_ABS_EXP of
\* CPython's string-to-double conversion)
ExponentCap == 1100000000

\* the digits of an exponent as a number, ExponentCap at most
CappedValue(s) ==
    LET d == SignificantDigits(s)
        n == BigTrim(DigitsValue(d))
        abs_exp == Limb(n, 1) + Base * Limb(n, 2)
    IN IF Len(d) > 9 \/ abs_exp > ExponentCap THEN ExponentCap ELSE abs_exp

\* the exponent written after the mark, 0 when there is none
ExponentValue(b) ==
    IF ExpMarksOf(b) = {} THEN 0
    ELSE SignOf(ExponentOf(b)) * CappedValue(Unsigned(ExponentOf(b)))

\* float(s) of a float literal: the double nearest the number it writes
\* ('-0' is -0.0, '1e400' is inf)
PyFloat(s) ==
    LET t == Strip(s)
        b == Unsigned(t)
    IN IF IsNaNWord(b) THEN NotANumber
       ELSE IF IsInfWord(b) THEN Infinity(SignOf(t))
       ELSE Float(SignOf(t),
                  NearestDouble(DigitsValue(MantissaOf(b)),
                                ExponentValue(b) - Decimals(MantissaOf(b))))

(***************************************************************************)
(* expand_value                                                            *)
(***************************************************************************)
Returned(v) == [kind |-> "return", val |-> v]
Raised(k) == [kind |-> k, val |-> Zero]

\* float(value[:-1]) * 10^exp
Scaled(s, exp) ==
    IF IsFloatLiteral(DropLast(s))
    THEN Returned(FTimesPow10(PyFloat(DropLast(s)), exp))
    ELSE Raised("ValueError")

\* the sentinel test of expand_value
IsZeroSentinel(s) ==
    s = <<"n", "a", "n">> \/ s = <<"0">> \/ s = <<"0", ".", "0", "0">> \/ Len(s) = 1

\* expand_value with the 'B' branch multiplying by 1_000_000
expand_value_BAsMillion(v) ==
    LET s == PyStr(v) IN
    IF IsZeroSentinel(s) THEN Returned(Zero)
    ELSE IF EndsWith(s, "M") THEN Scaled(s, 6)
    ELSE IF EndsWith(s, "K") THEN Scaled(s, 3)
    ELSE IF EndsWith(s, "B") THEN Scaled(s, 6)
    ELSE Raised("RuntimeError")

\* expand_value without the len(value) == 1 test
expand_value_NoLenTest(v) ==
    LET s == PyStr(v) IN
    IF s = <<"n", "a", "n">> \/ s = <<"0">> \/ s = <<"0", ".", "0", "0">>
    THEN Returned(Zero)
    ELSE IF EndsWith(s, "M") THEN Scaled(s, 6)
    ELSE IF EndsWith(s, "K") THEN Scaled(s, 3)
    ELSE IF EndsWith(s, "B") THEN Scaled(s, 9)
    ELSE Raised("RuntimeError")

\* expand_value whose last branch returns float(value) instead of raising
expand_value_PassThrough(v) ==
    LET s == PyStr(v) IN
    IF IsZeroSentinel(s) THEN Returned(Zero)
    ELSE IF EndsWith(s, "M") THEN Scaled(s, 6)
    ELSE IF EndsWith(s, "K") THEN Scaled(s, 3)
    ELSE IF EndsWith(s, "B") THEN Scaled(s, 9)
    ELSE IF IsFloatLiteral(s) THEN Returned(PyFloat(s))
    ELSE Raised("ValueError")

expand_value(v) ==
    LET s == PyStr(v) IN
    IF IsZeroSentinel(s) THEN Returned(Zero)
    ELSE IF EndsWith(s, "M") THEN Scaled(s, 6)
    ELSE IF EndsWith(s, "K") THEN Scaled(s, 3)
    ELSE IF EndsWith(s, "B") THEN Scaled(s, 9)
    ELSE Raised("RuntimeError")

\* aggregated.csv before to_csv has written it, and with rows written
NoFile == [exists |-> FALSE, rows |-> <<>>]
FileOf(rows) == [exists |-> TRUE, rows |-> rows]

\* the pipeline's variables while expand_value is exercised on its own
PipeIdle ==
    /\ pts = <<>> /\ details = <<>> /\ states = <<>>
    /\ pc = "idle"
    /\ all_data = <<>> /\ intersected = <<>>
    /\ aggregated_df = <<>> /\ most_common_cat = <<>>
    /\ csv = NoFile

NotCalled == [kind |-> "not called", val |-> Zero]

\* magnitude strings longer than MaxLen whose product is not a whole number
\* (2.01 * 1000 is 2009.9999999999998) or has a numeral that is no double
FractionalInputs ==
    { <<"2", ".", "0", "1", "K">>, <<"-", "2", ".", "0", "1", "K">>,
      <<"8", ".", "2", "M">>, <<"3", "2", ".", "8", "M">>, <<"1", ".", "0", "0", "1", "K">> }

\* magnitude strings with characters outside Alphabet: the words float()
\* reads, blanks and digits outside ASCII, and what it rejects
WordInputs ==
    { <<"i", "n", "f", "K">>, <<"-", "i", "n", "f", "K">>, <<"+", "I", "N", "F", "M">>,
      <<"I", "n", "f", "i", "n", "i", "t", "y", "B">>, <<"i", "n", "f", "i", "n", "i", "t", "K">>,
      <<"n", "a", "n", "K">>, <<"-", "N", "a", "N", "M">>, <<"n", "a", "n">>,
      <<"1", "E", "3", "M">>, <<"\n", "2", "K">>, <<"2", "\t", "K">>,
      <<"U+00A0", "1", "K">>, <<"U+000B", "1", "K">>, <<"U+001C", "1", "K">>,
      <<"U+0663", "K">>, <<"1", "e", "U+0663", "K">>, <<"U+FF11", "U+FF12", "M">>,
      <<"U+0663">>, <<"1", "?", "K">>, <<"a", "b", "c", "K">>, <<"0", "x", "1", "K">> }

\* magnitude strings at the ends of the range of a double, and with
\* exponents of many digits
RangeInputs ==
    { <<"1", "e", "4", "0", "0", "K">>, <<"-", "1", "e", "4", "0", "0", "K">>,
      <<"1", "e", "3", "0", "6", "K">>, <<"1", "e", "3", "0", "5", "B">>,
      <<"1", "e", "3", "0", "8", "K">>, <<"2", "e", "3", "0", "8", "K">>,
      <<"1", "e", "-", "4", "0", "0", "K">>, <<"-", "1", "e", "-", "4", "0", "0", "K">>,
      <<"5", "e", "-", "3", "2", "4", "K">>, <<"2", "e", "-", "3", "2", "4", "K">>,
      <<"1", "e", "-", "3", "1", "0", "M">>, <<"1", "e", "-", "3", "0", "0", "K">>,
      <<"1", "e", "9", "9", "9", "9", "9", "9", "K">>, <<"0", "e", "9", "9", "9", "9", "9", "9", "K">>,
      <<"1", "e", "1", "2", "3", "4", "5", "6", "7", "8", "9", "0", "1", "K">>,
      <<"1", "e", "-", "1", "2", "3", "4", "5", "6", "7", "8", "9", "0", "1", "K">>,
      <<"0", "e", "1", "2", "3", "4", "5", "6", "7", "8", "9", "0", "1", "K">>,
      <<"1", "e", "0", "0", "0", "0", "0", "0", "0", "0", "0", "0", "2", "K">>,
      <<"0", ".", "0", "0", "0", "0", "1", "e", "1", "1", "0", "0", "0", "0", "0", "0", "0", "1", "M">>,
      <<"0", ".", "0", "0", "0", "1", "e", "0", "0", "0", "0", "4", "K">> }

InitExpand ==
    /\ value \in StringsUpTo(MaxLen) \cup {NaN} \cup FractionalInputs
                  \cup WordInputs \cup RangeInputs
    /\ ret = NotCalled
    /\ PipeIdle

CallExpandValue ==
    /\ pc = "idle"
    /\ ret = NotCalled
    /\ ret' = expand_value(value)
    /\ UNCHANGED <<value, pipeVars>>

NextExpand == CallExpandValue

SpecExpand == InitExpand /\ [][NextExpand]_vars

(***************************************************************************)
(* Properties of expand_value (under SpecExpand)                           *)
(***************************************************************************)
Called == ret # NotCalled

\* the input as the str expand_value works on
Arg == PyStr(value)

\* the scale the specification gives each letter, as a power of ten
ScaleExponent(c) == CASE c = "K" -> 3 [] c = "M" -> 6 [] c = "B" -> 9

\* a numeral as float() reads one (the words inf and nan are none, nor is a
\* text of more than 10^9 digits)
IsNumeral(lit) == IsFloatNumber(Unsigned(Strip(lit)))

\* the exponent of a numeral counts as written: it has at most nine
\* significant digits, which float() reads in full, or the numeral is below
\* 10^8 characters, so that a longer exponent puts every number but 0 beyond
\* the doubles or below them, whatever is read for it
ExponentAsWritten(lit) ==
    LET b == Unsigned(Strip(lit)) IN
    \/ ExpMarksOf(b) = {}
    \/ Len(SignificantDigits(Unsigned(ExponentOf(b)))) <= 9
    \/ 10 * Len(lit) < MaxDigits

SuffixedNumeral(s) ==
    /\ Len(s) >= 2
    /\ s[Len(s)] \in Suffixes
    /\ IsNumeral(DropLast(s))

\* the digits of a numeral as a natural number, and the power of ten it
\* writes them with
NumeralDigits(lit) == DigitsValue(MantissaOf(Unsigned(Strip(lit))))
NumeralPower(lit) ==
    LET b == Unsigned(Strip(lit)) IN ExponentValue(b) - Decimals(MantissaOf(b))

\* x * 10^n as a real number (n >= 0)
TimesTen(x, n) == Exact(x.sign, Canon(BigTimes10(x.m, n), x.e))

\* a value with its sign dropped and scaled by 2^n
Magnitude(x, n) == IF IsZero(x) THEN Zero ELSE Exact(1, [m |-> x.m, e |-> x.e + n])

\* bits of agreement asked of a double and the real number it stands for
\* (a product or a compensated sum of doubles is off by less than 2^-51 of it)
ToleranceBits == Precision - 3

\* |x - y| <= 2^-ToleranceBits * |scale|
Close(x, y, scale) ==
    ~FLess(Magnitude(scale, 0), Magnitude(SignedSum(x, FNeg(y)), ToleranceBits))

\* 2^n as a real number
TwoTo(n) == Exact(1, [m |-> <<1>>, e |-> n])

\* the finite double x is the real number digits * 10^p to within 2^-50 of it
\* and a step of the smallest doubles, 2^-1074, times 10^k: both sides are
\* taken times 10^-p when p is negative, so that they are whole
IsProduct(x, digits, p, k) ==
    LET up == IF p < 0 THEN 0 - p ELSE 0
        real == Exact(1, Canon(BigTimes10(digits, IF p > 0 THEN p ELSE 0), 0))
        step == TimesTen(TwoTo(MinExponent), k + up)
        off == Magnitude(SignedSum(Magnitude(TimesTen(x, up), 0), FNeg(real)), 0)
    IN ~FLess(SignedSum(Magnitude(real, 0 - ToleranceBits), step), off)

\* digits * 10^p is at least 2^n
AtLeastTwoTo(digits, p, n) ==
    IF p >= 0 THEN ~FLess(Exact(1, Canon(BigTimes10(digits, p), 0)), TwoTo(n))
    ELSE ~FLess(Exact(1, Canon(digits, 0)), TimesTen(TwoTo(n), 0 - p))

\* digits * 10^p is below 2^1024 by more than 2^-50 of it: no rounding of it
\* reaches inf
BelowInfinity(digits, p) ==
    LET top == SignedSum(TwoTo(MaxExponent), FNeg(TwoTo(MaxExponent - ToleranceBits)))
    IN IF p >= 0 THEN FLess(Exact(1, Canon(BigTimes10(digits, p), 0)), top)
       ELSE FLess(Exact(1, Canon(digits, 0)), TimesTen(top, 0 - p))

\* the double x stands for the real number sign * digits * 10^p, the product
\* of a numeral and 10^k: 0 for 0, inf from 2^1024 on, and below that the
\* number itself to within the last bits of a double (next to 0, where the
\* numeral is between doubles 2^-1074 apart, to within such a step times
\* 10^k).  With p from 1024 on the number is beyond 2^1024, and with p below
\* -1074 by the length of the digits it is below half of 2^-1074
StandsFor(x, sign, digits, p, k) ==
    /\ ~IsNaN(x)
    /\ x.sign = sign
    /\ IF digits = <<>> THEN IsZero(x)
       ELSE IF p >= MaxExponent THEN x = Infinity(sign)
       ELSE IF p + BigBitLen(digits) <= MinExponent THEN IsZero(x)
       ELSE /\ AtLeastTwoTo(digits, p, MaxExponent) => x = Infinity(sign)
            /\ BelowInfinity(digits, p) => IsFinite(x) /\ IsProduct(x, digits, p, k)

\* C1: for a string of length >= 2 that ends in K, M or B and whose prefix is
\* a numeral, expand_value returns the numeral times 10^3, 10^6 or 10^9
\* ("2.5M" gives 2500000) as a double: the real product to within the last
\* bits of a double, inf when the product is beyond the doubles, and 0 or
\* one of the smallest doubles times the scale when the numeral is below
\* them.  (A numeral is a text float() reads as a number; for one of 10^8
\* characters or more the exponent has to be one float() reads in full.)
C1_SuffixScales ==
    Called /\ SuffixedNumeral(Arg) /\ ExponentAsWritten(DropLast(Arg)) =>
        LET lit == DropLast(Arg)
            k == ScaleExponent(Arg[Len(Arg)])
        IN /\ ret.kind = "return"
           /\ StandsFor(ret.val, SignOf(Strip(lit)), BigTrim(NumeralDigits(lit)),
                        NumeralPower(lit) + k, k)
           /\ (Arg = <<"2", ".", "5", "M">> => ret.val = FloatOfInt(2500000))
           /\ (Arg = <<"1", "K">> => ret.val = FloatOfInt(1000))
           /\ (Arg = <<"1", "B">> => ret.val = FloatOfInt(1000000000))
           /\ (Arg = <<"1", "e", "2", "K">> => ret.val = FloatOfInt(100000))

C1_Witness ==
    \/ value = <<"2", ".", "5", "M">> /\ ret = Returned(FloatOfInt(2500000))
    \/ /\ value = <<"2", ".", "0", "1", "K">> /\ ret.kind = "return"
       /\ FLess(ret.val, FloatOfInt(2010)) /\ FLess(FloatOfInt(2009), ret.val)
    \/ value = <<"+", "1", "e", "2", "K">> /\ ret = Returned(FloatOfInt(100000))
    \/ value = <<" ", "1", "_", "0", "K">> /\ ret = Returned(FloatOfInt(10000))
    \/ value = <<"1", "e", "4", "0", "0", "K">> /\ ret = Returned(Infinity(1))

\* C2 as stated: expand_value returns 0 for "", "0", "0.00" and every
\* single-character string, and raises on none of them.
C2_Original ==
    Called /\ (value \in {<<>>, <<"0">>, <<"0", ".", "0", "0">>} \/ Len(value) = 1) =>
        ret = Returned(Zero)

\* C2 amended: expand_value returns 0 for 'nan' (the str of the missing value
\* a blank cell is read as), "0", "0.00" and every single-character string;
\* the empty string itself raises RuntimeError.
C2_ZeroSentinels ==
    /\ Called /\ (Arg \in {<<"n", "a", "n">>, <<"0">>, <<"0", ".", "0", "0">>}
                    \/ Len(Arg) = 1) =>
           ret = Returned(Zero)
    /\ Called /\ value = <<>> => ret.kind = "RuntimeError"

C2_Witness == value = NaN /\ ret = Returned(Zero)

\* C3: a string that is no zero sentinel, is longer than one character and
\* does not end in K, M or B makes expand_value raise RuntimeError: it returns
\* no value.
C3_NoSuffixRaises ==
    Called /\ Arg \notin {<<"n", "a", "n">>, <<"0">>, <<"0", ".", "0", "0">>}
           /\ Len(Arg) > 1 /\ Arg[Len(Arg)] \notin Suffixes =>
        ret.kind = "RuntimeError"

C3_Witness == value = <<"1", "5", "0">> /\ ret.kind = "RuntimeError"

\* C9: every value expand_value returns is non-negative.
C9_NonNegative == Called /\ ret.kind = "return" => ~FLess(ret.val, Zero)

(***************************************************************************)
(* Input files of merge_intersect                                          *)
(***************************************************************************)
\* rows of locations_all.csv: event 1 inside cell 1 and on the edge cells 1 and
\* 2 share, event 2 on that edge and outside every cell
PtRows ==
    { [EVENT_ID |-> 1, LATITUDE |-> 1, LONGITUDE |-> 1],
      [EVENT_ID |-> 1, LATITUDE |-> 1, LONGITUDE |-> 2],
      [EVENT_ID |-> 2, LATITUDE |-> 1, LONGITUDE |-> 2],
      [EVENT_ID |-> 2, LATITUDE |-> 1, LONGITUDE |-> 5] }

\* rows of details_all.csv
DetailRows ==
    { [EVENT_ID |-> 1, EVENT_TYPE |-> "Hail",  DAMAGE_PROPERTY |-> <<"1", "K">>],
      [EVENT_ID |-> 1, EVENT_TYPE |-> "Flood", DAMAGE_PROPERTY |-> <<"1", "K">>],
      [EVENT_ID |-> 1, EVENT_TYPE |-> "Flood", DAMAGE_PROPERTY |-> <<"2", "K">>],
      [EVENT_ID |-> 2, EVENT_TYPE |-> "Hail",  DAMAGE_PROPERTY |-> <<"2", "K">>],
      [EVENT_ID |-> 2, EVENT_TYPE |-> "Hail",  DAMAGE_PROPERTY |-> <<"1", "5", "0">>],
      [EVENT_ID |-> 2, EVENT_TYPE |-> "Flood", DAMAGE_PROPERTY |-> NaN] }

\* cells of conus_grid.gpkg, already in EPSG:4326 (to_crs then leaves the
\* geometries as they are): two adjacent closed squares sharing the edge x = 2
Cell1 == [id |-> 1, geometry |-> [xmin |-> 0, xmax |-> 2, ymin |-> 0, ymax |-> 2]]
Cell2 == [id |-> 2, geometry |-> [xmin |-> 2, xmax |-> 4, ymin |-> 0, ymax |-> 2]]

Layers == { <<>>, <<Cell1>>, <<Cell1, Cell2>>, <<Cell2, Cell1>> }

\* rows of details_all.csv with fractional numerals: 8.2 and 32.8 are no
\* doubles, and neither is float('8.2') * 1000000 a whole number; 'nanK' is
\* the float nan
FractionalDetailRows ==
    { [EVENT_ID |-> 1, EVENT_TYPE |-> "Flood", DAMAGE_PROPERTY |-> <<"8", ".", "2", "M">>],
      [EVENT_ID |-> 1, EVENT_TYPE |-> "Flood", DAMAGE_PROPERTY |-> <<"3", "2", ".", "8", "M">>],
      [EVENT_ID |-> 1, EVENT_TYPE |-> "Hail",  DAMAGE_PROPERTY |-> <<"4", "1", "M">>],
      [EVENT_ID |-> 1, EVENT_TYPE |-> "Flood", DAMAGE_PROPERTY |-> <<"n", "a", "n", "K">>],
      [EVENT_ID |-> 1, EVENT_TYPE |-> "Hail",  DAMAGE_PROPERTY |-> <<"1", "5", "0">>] }

\* rows of details_all.csv whose magnitudes float() reads as inf, -inf and
\* nan, beside fractional ones and one so large (10^308) that two of them add
\* up to more than a double holds
NonFiniteDetailRows ==
    { [EVENT_ID |-> 1, EVENT_TYPE |-> "Flood", DAMAGE_PROPERTY |-> <<"i", "n", "f", "K">>],
      [EVENT_ID |-> 1, EVENT_TYPE |-> "Flood", DAMAGE_PROPERTY |-> <<"-", "i", "n", "f", "K">>],
      [EVENT_ID |-> 1, EVENT_TYPE |-> "Flood", DAMAGE_PROPERTY |-> <<"n", "a", "n", "K">>],
      [EVENT_ID |-> 1, EVENT_TYPE |-> "Flood", DAMAGE_PROPERTY |-> <<"8", ".", "2", "M">>],
      [EVENT_ID |-> 1, EVENT_TYPE |-> "Flood", DAMAGE_PROPERTY |-> <<"3", "2", ".", "8", "M">>],
      [EVENT_ID |-> 1, EVENT_TYPE |-> "Hail",  DAMAGE_PROPERTY |-> <<"1", "e", "2", "9", "9", "B">>],
      [EVENT_ID |-> 1, EVENT_TYPE |-> "Hail",  DAMAGE_PROPERTY |-> <<"1", "5", "0">>] }

\* locations_all.csv with one or two reports of event 1, both in cell 1
Point1 == [EVENT_ID |-> 1, LATITUDE |-> 1, LONGITUDE |-> 1]
Point2 == [EVENT_ID |-> 1, LATITUDE |-> 2, LONGITUDE |-> 1]
FractionalPts == { <<Point1>>, <<Point1, Point2>>, <<Point2, Point1>> }
FractionalLayers == { <<Cell1>>, <<Cell1, Cell2>> }

SeqsUpTo(S, n) == UNION {[1..k -> S] : k \in 0..n}

\* Python's order on the EVENT_TYPE labels in use (by code point)
LabelOrder == <<"Flood", "Hail">>
LabelRank(t) == CHOOSE i \in 1..Len(LabelOrder) : LabelOrder[i] = t
StrLess(a, b) == LabelRank(a) < LabelRank(b)

RECURSIVE Concat(_)
Concat(ss) == IF ss = <<>> THEN <<>> ELSE Head(ss) \o Concat(Tail(ss))

(***************************************************************************)
(* pts.merge(details, on='EVENT_ID'): inner join, one row per pairing      *)
(***************************************************************************)
JoinedRow(l, r) ==
    [EVENT_ID |-> l.EVENT_ID, LATITUDE |-> l.LATITUDE, LONGITUDE |-> l.LONGITUDE,
     EVENT_TYPE |-> r.EVENT_TYPE, DAMAGE_PROPERTY |-> r.DAMAGE_PROPERTY]

MergeRowsFor(l, d) ==
    Concat([j \in 1..Len(d) |->
              IF d[j].EVENT_ID = l.EVENT_ID THEN <<JoinedRow(l, d[j])>> ELSE <<>>])

\* a join keeping only the first detail row of each location row's key
MergeFirstMatch(p, d) ==
    Concat([i \in 1..Len(p) |->
              LET m == MergeRowsFor(p[i], d) IN IF m = <<>> THEN <<>> ELSE <<Head(m)>>])

Merge(p, d) == Concat([i \in 1..Len(p) |-> MergeRowsFor(p[i], d)])

(***************************************************************************)
(* all_data['DAMAGE_PROPERTY'].apply(expand_value)                         *)
(***************************************************************************)
ApplyRaises(rows) ==
    \E i \in 1..Len(rows) : expand_value(rows[i].DAMAGE_PROPERTY).kind # "return"

ApplyExpand(rows) ==
    [i \in 1..Len(rows) |->
        [rows[i] EXCEPT !.DAMAGE_PROPERTY = expand_value(rows[i].DAMAGE_PROPERTY).val]]

(***************************************************************************)
(* gpd.sjoin(gdf_points, states, how="inner", predicate="intersects")      *)
(***************************************************************************)
\* predicate="within": strictly inside, the boundary excluded
Within(x, y, g) ==
    /\ g.xmin < x /\ x < g.xmax
    /\ g.ymin < y /\ y < g.ymax

\* a point intersects a closed polygon when it is inside it or on its boundary
Intersects(x, y, g) ==
    /\ g.xmin <= x /\ x <= g.xmax
    /\ g.ymin <= y /\ y <= g.ymax

\* a row of the join: the point row under its own index label (0-based),
\* with the matched polygon row's label and its id
LocatedRow(e, i, k, st) ==
    [index |-> i - 1,
     EVENT_ID |-> e.EVENT_ID, LATITUDE |-> e.LATITUDE, LONGITUDE |-> e.LONGITUDE,
     EVENT_TYPE |-> e.EVENT_TYPE, DAMAGE_PROPERTY |-> e.DAMAGE_PROPERTY,
     index_right |-> k - 1, id |-> st[k].id]

SJoinRowsFor(e, i, st) ==
    Concat([k \in 1..Len(st) |->
              IF Intersects(e.LONGITUDE, e.LATITUDE, st[k].geometry)
              THEN <<LocatedRow(e, i, k, st)>> ELSE <<>>])

SJoin(rows, st) == Concat([i \in 1..Len(rows) |-> SJoinRowsFor(rows[i], i, st)])

(***************************************************************************)
(* groupby(['id', 'EVENT_TYPE'])['DAMAGE_PROPERTY'].sum()                  *)
(*     .reset_index(name='mag')                                            *)
(***************************************************************************)
KeyOf(r) == <<r.id, r.EVENT_TYPE>>

KeyLess(a, b) == a[1] < b[1] \/ (a[1] = b[1] /\ StrLess(a[2], b[2]))

\* the keys of a set in ascending order (groupby sorts its keys)
RECURSIVE SortKeys(_)
SortKeys(K) ==
    IF K = {} THEN <<>>
    ELSE LET k == CHOOSE a \in K : \A b \in K \ {a} : KeyLess(a, b)
         IN <<k>> \o SortKeys(K \ {k})

\* the keys in order of first appearance (groupby(..., sort=False))
RECURSIVE FirstSeenKeys(_)
FirstSeenKeys(rows) ==
    IF rows = <<>> THEN <<>>
    ELSE LET front == FirstSeenKeys(DropLast(rows))
             k == KeyOf(rows[Len(rows)])
         IN IF \E n \in 1..Len(front) : front[n] = k THEN front ELSE front \o <<k>>

GroupKeys(rows) == SortKeys({KeyOf(rows[i]) : i \in 1..Len(rows)})

\* .last() in place of .sum(): the last DAMAGE_PROPERTY of the group
RECURSIVE GroupLast(_, _)
GroupLast(rows, k) ==
    IF rows = <<>> THEN Zero
    ELSE IF KeyOf(rows[Len(rows)]) = k THEN rows[Len(rows)].DAMAGE_PROPERTY
    ELSE GroupLast(DropLast(rows), k)

\* the float64 group sum of pandas over the rows of one group, in row
\* order: a running sum with Kahan's compensation that leaves NaN values
\* out,
\*     y = val - compensation; t = sumx + y;
\*     compensation = t - sumx - y; sumx = t
\* and, as pandas does from 2.1 on, puts the compensation back to 0 when an
\* infinite value has made it NaN
RECURSIVE KahanSum(_, _)
KahanSum(rows, k) ==
    IF rows = <<>> THEN [sumx |-> Zero, compensation |-> Zero]
    ELSE LET acc == KahanSum(DropLast(rows), k)
             r == rows[Len(rows)]
             y == FSub(r.DAMAGE_PROPERTY, acc.compensation)
             t == FAdd(acc.sumx, y)
             c == FSub(FSub(t, acc.sumx), y)
         IN IF KeyOf(r) = k /\ ~IsNaN(r.DAMAGE_PROPERTY)
            THEN [sumx |-> t, compensation |-> IF IsNaN(c) THEN Zero ELSE c]
            ELSE acc

GroupTotal(rows, k) == KahanSum(rows, k).sumx

GroupSum(rows) ==
    LET ks == GroupKeys(rows) IN
    [n \in 1..Len(ks) |->
        [id |-> ks[n][1], EVENT_TYPE |-> ks[n][2], mag |-> GroupTotal(rows, ks[n])]]

(***************************************************************************)
(* aggregated_df.loc[aggregated_df.groupby('id')['mag'].idxmax()]          *)
(*     .reset_index(drop=True)                                             *)
(***************************************************************************)
RECURSIVE SortInts(_)
SortInts(S) ==
    IF S = {} THEN <<>>
    ELSE LET m == CHOOSE a \in S : \A b \in S : a <= b
         IN <<m>> \o SortInts(S \ {m})

\* rows of region g whose mag is a number (idxmax and idxmin skip NaN)
NumbersOf(agg, g) == {n \in 1..Len(agg) : agg[n].id = g /\ ~IsNaN(agg[n].mag)}

\* idxmin in place of idxmax
IdxMin(agg, g) ==
    LET own == NumbersOf(agg, g)
        low == {n \in own : \A o \in own : ~FLess(agg[o].mag, agg[n].mag)}
    IN CHOOSE n \in low : \A o \in low : n <= o

\* index of the first row of region g that no row of g exceeds
IdxMax(agg, g) ==
    LET own == NumbersOf(agg, g)
        top == {n \in own : \A o \in own : ~FLess(agg[n].mag, agg[o].mag)}
    IN CHOOSE n \in top : \A o \in top : n <= o

\* every mag of some region is NaN: idxmax has no label for it (NaN, which
\* .loc does not find: KeyError; pandas 3 raises ValueError in idxmax)
IdxMaxRaises(agg) == \E n \in 1..Len(agg) : NumbersOf(agg, agg[n].id) = {}

IdxMaxRows(agg) ==
    LET gs == SortInts({agg[n].id : n \in 1..Len(agg)}) IN
    [n \in 1..Len(gs) |-> agg[IdxMax(agg, gs[n])]]

\* lines 74-84 and 74-85 in one piece: the totals and the frame to_csv writes
\* for given input files (defined when no DAMAGE_PROPERTY makes expand_value
\* raise)
Totals(p, d, st) == GroupSum(SJoin(ApplyExpand(Merge(p, d)), st))
Pipeline(p, d, st) == IdxMaxRows(Totals(p, d, st))

(***************************************************************************)
(* merge_intersect, statement by statement                                 *)
(***************************************************************************)
Init ==
    /\ value = NaN
    /\ ret = NotCalled
    /\ pts \in SeqsUpTo(PtRows, MaxPts)
    /\ details \in SeqsUpTo(DetailRows, MaxDetails)
    /\ states \in Layers
    /\ pc = "start"
    /\ all_data = <<>>
    /\ intersected = <<>>
    /\ aggregated_df = <<>>
    /\ most_common_cat = <<>>
    /\ csv = NoFile

ReadAndMerge ==
    /\ pc = "start"
    /\ all_data' = Merge(pts, details)
    /\ pc' = "merged"
    /\ UNCHANGED <<evVars, pts, details, states,
                   intersected, aggregated_df, most_common_cat, csv>>

ExpandColumn ==
    /\ pc = "merged"
    /\ ~ApplyRaises(all_data)
    /\ all_data' = ApplyExpand(all_data)
    /\ pc' = "expanded"
    /\ UNCHANGED <<evVars, pts, details, states,
                   intersected, aggregated_df, most_common_cat, csv>>

\* expand_value raises inside apply: the exception leaves merge_intersect
ExpandColumnRaises ==
    /\ pc = "merged"
    /\ ApplyRaises(all_data)
    /\ pc' = "failed"
    /\ UNCHANGED <<evVars, pts, details, states, all_data,
                   intersected, aggregated_df, most_common_cat, csv>>

SpatialJoin ==
    /\ pc = "expanded"
    /\ intersected' = SJoin(all_data, states)
    /\ pc' = "intersected"
    /\ UNCHANGED <<evVars, pts, details, states, all_data,
                   aggregated_df, most_common_cat, csv>>

Aggregate ==
    /\ pc = "intersected"
    /\ aggregated_df' = GroupSum(intersected)
    /\ pc' = "aggregated"
    /\ UNCHANGED <<evVars, pts, details, states, all_data,
                   intersected, most_common_cat, csv>>

\* line 85; its exception leaves merge_intersect
SelectDominant ==
    /\ pc = "aggregated"
    /\ IF IdxMaxRaises(aggregated_df)
       THEN pc' = "failed" /\ most_common_cat' = most_common_cat
       ELSE pc' = "selected" /\ most_common_cat' = IdxMaxRows(aggregated_df)
    /\ UNCHANGED <<evVars, pts, details, states, all_data,
                   intersected, aggregated_df, csv>>

ToCsv ==
    /\ pc = "selected"
    /\ csv' = FileOf(most_common_cat)
    /\ pc' = "written"
    /\ UNCHANGED <<evVars, pts, details, states, all_data,
                   intersected, aggregated_df, most_common_cat>>

Next ==
    \/ ReadAndMerge
    \/ ExpandColumn
    \/ ExpandColumnRaises
    \/ SpatialJoin
    \/ Aggregate
    \/ SelectDominant
    \/ ToCsv

Spec == Init /\ [][Next]_vars

\* merge_intersect on input files whose magnitudes have fractional numerals
InitFractional ==
    /\ value = NaN
    /\ ret = NotCalled
    /\ pts \in FractionalPts
    /\ details \in SeqsUpTo(FractionalDetailRows, MaxFractionalDetails)
    /\ states \in FractionalLayers
    /\ pc = "start"
    /\ all_data = <<>>
    /\ intersected = <<>>
    /\ aggregated_df = <<>>
    /\ most_common_cat = <<>>
    /\ csv = NoFile

SpecFractional == InitFractional /\ [][Next]_vars

\* merge_intersect on input files whose magnitudes include inf, nan and
\* numbers that add up beyond the doubles
InitNonFinite ==
    /\ value = NaN
    /\ ret = NotCalled
    /\ pts \in FractionalPts
    /\ details \in SeqsUpTo(NonFiniteDetailRows, MaxNonFiniteDetails)
    /\ states \in FractionalLayers
    /\ pc = "start"
    /\ all_data = <<>>
    /\ intersected = <<>>
    /\ aggregated_df = <<>>
    /\ most_common_cat = <<>>
    /\ csv = NoFile

SpecNonFinite == InitNonFinite /\ [][Next]_vars

(***************************************************************************)
(* Properties of merge_intersect (under Spec, SpecFractional and           *)
(* SpecNonFinite)                                                          *)
(***************************************************************************)
\* s with the rows at positions i and i + 1 exchanged
SwapAt(s, i) ==
    [n \in 1..Len(s) |-> IF n = i THEN s[i + 1] ELSE IF n = i + 1 THEN s[i] ELSE s[n]]

\* the sum of the values f[x], x in S, as a real number: nothing is rounded
\* and the order does not matter
RECURSIVE SumOver(_, _)
SumOver(f, S) ==
    IF S = {} THEN Zero
    ELSE LET x == CHOOSE y \in S : TRUE IN SignedSum(f[x], SumOver(f, S \ {x}))

\* the sum of the |f[x]|, x in S, as a real number
RECURSIVE AbsSumOver(_, _)
AbsSumOver(f, S) ==
    IF S = {} THEN Zero
    ELSE LET x == CHOOSE y \in S : TRUE
         IN SignedSum(Magnitude(f[x], 0), AbsSumOver(f, S \ {x}))

\* the f[x], x in S, are whole numbers whose sums stay below 2^53, where
\* doubles add without rounding
WholeNumbers(f, S) ==
    /\ \A x \in S : f[x].e >= 0
    /\ LET a == AbsSumOver(f, S) IN BigBitLen(a.m) + a.e <= Precision

\* ---- C6 ----------------------------------------------------------------
LocationsOf(k) == {i \in 1..Len(pts) : pts[i].EVENT_ID = k}
DetailsOf(k) == {j \in 1..Len(details) : details[j].EVENT_ID = k}
JoinedOf(k) == {n \in 1..Len(all_data) : all_data[n].EVENT_ID = k}
AllEventIds ==
    {pts[i].EVENT_ID : i \in 1..Len(pts)} \cup {details[j].EVENT_ID : j \in 1..Len(details)}

\* joined rows made of location row i and detail row j
PairingRows(i, j) ==
    {n \in 1..Len(all_data) :
        /\ all_data[n].EVENT_ID = pts[i].EVENT_ID
        /\ all_data[n].LATITUDE = pts[i].LATITUDE
        /\ all_data[n].LONGITUDE = pts[i].LONGITUDE
        /\ all_data[n].EVENT_TYPE = details[j].EVENT_TYPE
        /\ all_data[n].DAMAGE_PROPERTY = details[j].DAMAGE_PROPERTY}

\* C6: the join is an inner join on EVENT_ID: an EVENT_ID occurring m times in
\* locations and n times in details has exactly m*n joined rows (none when it
\* is missing from one input), and every pairing of a location row with a
\* detail row of the same EVENT_ID has its joined row.
C6_InnerJoin ==
    pc = "merged" =>
        /\ \A k \in AllEventIds :
              Cardinality(JoinedOf(k)) = Cardinality(LocationsOf(k)) * Cardinality(DetailsOf(k))
        /\ \A n \in 1..Len(all_data) :
              LocationsOf(all_data[n].EVENT_ID) # {} /\ DetailsOf(all_data[n].EVENT_ID) # {}
        /\ \A i \in 1..Len(pts) : \A j \in 1..Len(details) :
              pts[i].EVENT_ID = details[j].EVENT_ID => PairingRows(i, j) # {}
        /\ \A n \in 1..Len(all_data) :
              \E i \in 1..Len(pts) : \E j \in 1..Len(details) :
                  pts[i].EVENT_ID = details[j].EVENT_ID /\ n \in PairingRows(i, j)

C6_Witness ==
    /\ pc = "merged"
    /\ \E k \in AllEventIds :
          Cardinality(LocationsOf(k)) = 2 /\ Cardinality(DetailsOf(k)) = 2
    /\ Len(all_data) = 4

\* ---- C7 ----------------------------------------------------------------
\* the point of joined row i lies inside region row k or on its boundary
OnOrInside(i, k) ==
    LET g == states[k].geometry
        x == all_data[i].LONGITUDE
        y == all_data[i].LATITUDE
    IN ~(x < g.xmin \/ x > g.xmax \/ y < g.ymin \/ y > g.ymax)

\* located rows of event row i and region row k
HitRows(i, k) ==
    {n \in 1..Len(intersected) :
        intersected[n].index = i - 1 /\ intersected[n].index_right = k - 1}

RegionsOf(i) == {k \in 1..Len(states) : OnOrInside(i, k)}
LocatedOf(i) == {n \in 1..Len(intersected) : intersected[n].index = i - 1}

\* C7: the spatial join emits exactly one located row per (event, region) pair
\* whose region contains the event's point, boundary included: an event in k
\* regions has k located rows, an event in none has no row.
C7_SpatialJoin ==
    pc = "intersected" =>
        /\ \A i \in 1..Len(all_data) : \A k \in 1..Len(states) :
              Cardinality(HitRows(i, k)) = IF OnOrInside(i, k) THEN 1 ELSE 0
        /\ \A i \in 1..Len(all_data) :
              Cardinality(LocatedOf(i)) = Cardinality(RegionsOf(i))
        /\ \A n \in 1..Len(intersected) :
              \E i \in 1..Len(all_data) : \E k \in 1..Len(states) :
                  /\ n \in HitRows(i, k)
                  /\ intersected[n].id = states[k].id
                  /\ intersected[n].EVENT_ID = all_data[i].EVENT_ID
                  /\ intersected[n].EVENT_TYPE = all_data[i].EVENT_TYPE
                  /\ intersected[n].DAMAGE_PROPERTY = all_data[i].DAMAGE_PROPERTY

C7_Witness ==
    /\ pc = "intersected"
    /\ \E i \in 1..Len(all_data) :
          /\ all_data[i].LONGITUDE = 2
          /\ Cardinality(RegionsOf(i)) = 2
          /\ Cardinality(LocatedOf(i)) = 2
    /\ \E i \in 1..Len(all_data) : RegionsOf(i) = {} /\ LocatedOf(i) = {}

\* ---- C5 ----------------------------------------------------------------
LocatedKeys == {<<intersected[n].id, intersected[n].EVENT_TYPE>> : n \in 1..Len(intersected)}
GroupOf(k) ==
    {n \in 1..Len(intersected) : intersected[n].id = k[1] /\ intersected[n].EVENT_TYPE = k[2]}
Damages == [n \in 1..Len(intersected) |-> intersected[n].DAMAGE_PROPERTY]
\* the located events of a pair whose DAMAGE_PROPERTY is no NaN, and those
\* among them whose DAMAGE_PROPERTY is finite, inf and -inf
NumbersIn(k) == {n \in GroupOf(k) : ~IsNaN(Damages[n])}
FiniteIn(k) == {n \in GroupOf(k) : IsFinite(Damages[n])}
InfiniteIn(k, sign) == {n \in NumbersIn(k) \ FiniteIn(k) : Damages[n].sign = sign}

\* the sum of the DAMAGE_PROPERTY of all located events of a pair, as the
\* extended real number it is: NaN with a NaN among them or with both inf
\* and -inf, inf or -inf with one of these, else the real sum
SumOfAll(k) ==
    IF NumbersIn(k) # GroupOf(k) THEN NotANumber
    ELSE IF InfiniteIn(k, 1) # {} /\ InfiniteIn(k, -1) # {} THEN NotANumber
    ELSE IF InfiniteIn(k, 1) # {} THEN Infinity(1)
    ELSE IF InfiniteIn(k, -1) # {} THEN Infinity(-1)
    ELSE SumOver(Damages, GroupOf(k))

\* the finite values of a pair add up, signs dropped, to less than 2^1023:
\* no sum of some of them leaves the doubles
InRange(k) == FLess(AbsSumOver(Damages, FiniteIn(k)), TwoTo(MaxExponent - 1))

\* mag is the total of the pair k for the values in NumbersIn(k): inf or
\* -inf with infinite values of one sign among them, NaN with both, else
\* the real sum of the finite ones to within the last bits of a double, and
\* exactly that for whole numbers
IsTotal(mag, k) ==
    IF InfiniteIn(k, 1) # {} /\ InfiniteIn(k, -1) # {} THEN IsNaN(mag)
    ELSE IF InfiniteIn(k, 1) # {} THEN mag = Infinity(1)
    ELSE IF InfiniteIn(k, -1) # {} THEN mag = Infinity(-1)
    ELSE /\ IsFinite(mag)
         /\ Close(mag, SumOver(Damages, FiniteIn(k)), AbsSumOver(Damages, FiniteIn(k)))
         /\ (WholeNumbers(Damages, FiniteIn(k)) => mag = SumOver(Damages, FiniteIn(k)))

\* two totals of the pair k, from the same rows in two orders, agree:
\* equal with an infinite value or only whole numbers among the rows, else
\* within the last bits of a double
SameTotal(a, b, k) ==
    IF NumbersIn(k) # FiniteIn(k) \/ WholeNumbers(Damages, FiniteIn(k)) THEN a = b
    ELSE IsFinite(a) /\ IsFinite(b) /\ Close(a, b, AbsSumOver(Damages, FiniteIn(k)))

KeysOfTotals(agg) == [n \in 1..Len(agg) |-> <<agg[n].id, agg[n].EVENT_TYPE>>]
RowSet(agg) == {agg[n] : n \in 1..Len(agg)}

\* C5 as stated: aggregation has exactly one row per (id, EVENT_TYPE) pair
\* occurring among the located events and no other row, each mag is the sum of
\* the DAMAGE_PROPERTY of the located events of its pair, and exchanging
\* located rows leaves the result unchanged.
C5_Original ==
    pc = "aggregated" =>
        /\ RowSet(KeysOfTotals(aggregated_df)) = LocatedKeys
        /\ Len(aggregated_df) = Cardinality(LocatedKeys)
        /\ \A n \in 1..Len(aggregated_df) :
              aggregated_df[n].mag = SumOfAll(KeysOfTotals(aggregated_df)[n])
        /\ \A i \in 1..(Len(intersected) - 1) :
              GroupSum(SwapAt(intersected, i)) = aggregated_df

\* C5 amended: aggregation has exactly one row per (id, EVENT_TYPE) pair
\* occurring among the located events and no other row, in whatever order the
\* located rows come.  A NaN value is left out of the sum (which is 0 when
\* all are NaN).  Where the finite values of a pair add up, signs dropped, to
\* less than 2^1023, its mag is: NaN when inf and -inf are both among the
\* values; inf or -inf when one of them is; else the float64 sum of the
\* finite values, equal to their real sum to within the last bits of a double
\* and exactly when they are whole numbers.  Exchanging located rows leaves
\* such a mag within that tolerance, and unchanged when it is not finite or
\* the values are whole numbers.  (Beyond 2^1023 a sum of finite values can
\* be inf or NaN.)
C5_GroupSums ==
    pc = "aggregated" =>
        /\ RowSet(KeysOfTotals(aggregated_df)) = LocatedKeys
        /\ Len(aggregated_df) = Cardinality(LocatedKeys)
        /\ \A n \in 1..Len(aggregated_df) :
              LET k == KeysOfTotals(aggregated_df)[n] IN
              InRange(k) => IsTotal(aggregated_df[n].mag, k)
        /\ \A i \in 1..(Len(intersected) - 1) :
              LET swapped == GroupSum(SwapAt(intersected, i)) IN
              /\ KeysOfTotals(swapped) = KeysOfTotals(aggregated_df)
              /\ \A n \in 1..Len(aggregated_df) :
                    LET k == KeysOfTotals(aggregated_df)[n] IN
                    InRange(k) => SameTotal(swapped[n].mag, aggregated_df[n].mag, k)

\* a total of four fractional magnitudes that an exchange of two located
\* rows changes in its last bit
C5_Witness ==
    /\ pc = "aggregated"
    /\ \E n \in 1..Len(aggregated_df) :
          LET k == KeysOfTotals(aggregated_df)[n] IN
          /\ Cardinality(FiniteIn(k)) = 4
          /\ GroupOf(k) = FiniteIn(k)
          /\ InRange(k)
          /\ ~WholeNumbers(Damages, FiniteIn(k))
          /\ aggregated_df[n].mag = FloatOfInt(82000000)
          /\ \E i \in 1..(Len(intersected) - 1) :
                FLess(GroupSum(SwapAt(intersected, i))[n].mag, aggregated_df[n].mag)

\* ---- C4 ----------------------------------------------------------------
LocatedIds == {intersected[n].id : n \in 1..Len(intersected)}
TotalsOf(g) == {n \in 1..Len(aggregated_df) : aggregated_df[n].id = g}

\* C4: the final frame has exactly one row for each region id with a located
\* event and none for any other region, and a region's row is one of its
\* totals, of maximum mag among them.
C4_DominantRows ==
    pc \in {"selected", "written"} =>
        /\ {most_common_cat[n].id : n \in 1..Len(most_common_cat)} = LocatedIds
        /\ Len(most_common_cat) = Cardinality(LocatedIds)
        /\ \A n \in 1..Len(most_common_cat) :
              /\ \E t \in TotalsOf(most_common_cat[n].id) :
                    aggregated_df[t] = most_common_cat[n]
              /\ \A t \in TotalsOf(most_common_cat[n].id) :
                    ~FLess(most_common_cat[n].mag, aggregated_df[t].mag)
        /\ (pc = "written" => csv = FileOf(most_common_cat))

C4_Witness ==
    /\ pc = "written"
    /\ \E k \in 1..Len(states) : states[k].id \notin LocatedIds
    /\ \E n \in 1..Len(csv.rows) :
          \E t \in TotalsOf(csv.rows[n].id) :
              FLess(aggregated_df[t].mag, csv.rows[n].mag)

\* ---- C8 ----------------------------------------------------------------
\* among the totals of its region that equal the selected row's mag, the
\* selected row has the smallest EVENT_TYPE
SmallestOfTied ==
    \A n \in 1..Len(csv.rows) : \A t \in TotalsOf(csv.rows[n].id) :
        aggregated_df[t].mag = csv.rows[n].mag =>
            ~StrLess(aggregated_df[t].EVENT_TYPE, csv.rows[n].EVENT_TYPE)

\* C8 as stated: the selected categories do not depend on the order of the
\* rows of the location, detail and region inputs: exchanging two neighbouring
\* rows of any input selects the same category for every region, ties for
\* the maximum included; among the totals of a region that tie for the
\* maximum, the selected one is fixed by the totals alone (it has the
\* smallest EVENT_TYPE).
C8_Original ==
    pc = "written" =>
        /\ SmallestOfTied
        /\ \A i \in 1..(Len(pts) - 1) :
              KeysOfTotals(Pipeline(SwapAt(pts, i), details, states)) = KeysOfTotals(csv.rows)
        /\ \A j \in 1..(Len(details) - 1) :
              KeysOfTotals(Pipeline(pts, SwapAt(details, j), states)) = KeysOfTotals(csv.rows)
        /\ \A k \in 1..(Len(states) - 1) :
              KeysOfTotals(Pipeline(pts, details, SwapAt(states, k))) = KeysOfTotals(csv.rows)

\* every joined magnitude is a whole number, and their sum stays below 2^53
WholeMagnitudes ==
    WholeNumbers([n \in 1..Len(all_data) |-> all_data[n].DAMAGE_PROPERTY],
                 1..Len(all_data))

\* the run on inputs p, d, st selects the categories this run selected,
\* provided it arrives at the same set of totals or all magnitudes are whole
\* numbers
SameSelection(p, d, st) ==
    LET t == Totals(p, d, st) IN
    RowSet(t) = RowSet(aggregated_df) \/ WholeMagnitudes =>
        KeysOfTotals(IdxMaxRows(t)) = KeysOfTotals(csv.rows)

\* C8 amended: among the totals of a region that tie exactly for the maximum
\* the selected one is fixed by the totals alone (it has the smallest
\* EVENT_TYPE); a run on input rows in another order selects the same
\* categories whenever it arrives at the same totals, as it does when the
\* magnitudes are whole numbers.
C8_OrderIndependent ==
    pc = "written" =>
        /\ SmallestOfTied
        /\ \A i \in 1..(Len(pts) - 1) : SameSelection(SwapAt(pts, i), details, states)
        /\ \A j \in 1..(Len(details) - 1) : SameSelection(pts, SwapAt(details, j), states)
        /\ \A k \in 1..(Len(states) - 1) : SameSelection(pts, details, SwapAt(states, k))

\* two categories tie for the maximum of a region
TieIn(g) ==
    \E a \in TotalsOf(g) : \E b \in TotalsOf(g) :
        /\ a # b
        /\ aggregated_df[a].mag = aggregated_df[b].mag
        /\ \A t \in TotalsOf(g) : ~FLess(aggregated_df[a].mag, aggregated_df[t].mag)

\* a tie won by the smaller label, in a run whose detail rows can be
\* exchanged without changing a total
C8_Witness ==
    /\ pc = "written"
    /\ \E n \in 1..Len(csv.rows) :
          TieIn(csv.rows[n].id) /\ csv.rows[n].EVENT_TYPE = "Flood"
    /\ \E j \in 1..(Len(details) - 1) :
          /\ details[j].EVENT_TYPE # details[j + 1].EVENT_TYPE
          /\ RowSet(Totals(pts, SwapAt(details, j), states)) = RowSet(aggregated_df)

\* ---- C10 ---------------------------------------------------------------
\* a damage value with no recognised scale suffix that is no zero sentinel
\* (or whose numeral does not parse)
MalformedMagnitude(v) ==
    LET s == PyStr(v) IN
    /\ s \notin {<<"n", "a", "n">>, <<"0">>, <<"0", ".", "0", "0">>}
    /\ Len(s) # 1
    /\ (s = <<>> \/ s[Len(s)] \notin Suffixes \/ ~IsFloatLiteral(DropLast(s)))

\* some joined event (a location row and a detail row of one EVENT_ID) carries
\* a malformed magnitude
JoinedMalformed ==
    \E i \in 1..Len(pts) : \E j \in 1..Len(details) :
        pts[i].EVENT_ID = details[j].EVENT_ID /\ MalformedMagnitude(details[j].DAMAGE_PROPERTY)

C10_Halts ==
    /\ (pc = "failed" => JoinedMalformed /\ csv = NoFile)
    /\ (pc \in {"expanded", "intersected", "aggregated", "selected", "written"} =>
            ~JoinedMalformed)
    /\ (csv # NoFile => pc = "written")
    /\ (pc = "merged" => (ApplyRaises(all_data) <=> JoinedMalformed))

\* C10: a run halts, writing nothing, exactly when some joined event carries a
\* malformed magnitude (whether or not its point lies in a region; a malformed
\* detail row without a location does not count); otherwise the output is
\* written once, by the last statement; a halted run does nothing more.
\* (Holds under Spec.  Under SpecNonFinite it does not: 'infK' and '-infK' in
\* one group add up to NaN, idxmax has no label for the region and line 85
\* raises, with no malformed magnitude among the joined events.)
C10_FatalOrWritten ==
    /\ []C10_Halts
    /\ [][/\ (csv' # csv => pc = "selected" /\ pc' = "written")
          /\ pc # "failed" /\ pc # "written"]_vars

====
